---- MODULE Spec2Model ----
(***************************************************************************)
(* Zone-based PV simulation pipeline: weather ingestion with retry and     *)
(* per-zone cache (phase2_weather.py), hourly cleaning (clean_hourly),     *)
(* daily PV energy aggregation (phase3_pv_groundtruth.py), QA/QC           *)
(* classification (phase4_qaqc.py) and the QA filter of the feature stage  *)
(* (phase4_features.py).                                                   *)
(*                                                                         *)
(* Numbers.  A cell of a data frame is <<>> (NaN) or <<v>>.  Weather       *)
(* values are fixed-point integers in units of 1/Scale, so that the linear *)
(* interpolation of a percentile (a multiple of 1/100 of a difference) is  *)
(* exact for two successive cleanings of integer-valued input.  Energies   *)
(* of the QA stage are in hundredths of a kWh.                             *)
(***************************************************************************)
EXTENDS Integers, Sequences, FiniteSets, TLC

\* ------------------------------------------------------------------ bounds
\* hours 0..MaxHours-1 an input series of SpecClean may cover
MaxHours == 6

\* zones 1..n of a run's zone list, n <= MaxZones
MaxZones == 2

\* stage runs (weather or simulation) one behaviour starts
MaxRuns == 2

\* max_retries of fetch_power_hourly ranges over 1..MaxRetries
MaxRetries == 3

\* zones of the zone list of SpecSim
MaxSimZones == 2

\* local days of hourly AC power one zone's simulation covers
MaxDays == 2

\* zones 1..MaxQaZones of the daily energy table the QA stage reads
MaxQaZones == 2

\* changes to partial years of the daily energy table between QA runs
MaxEdits == 1

\* fixed-point unit of weather values: v stands for v / Scale
Scale == 100 * 100

\* ----------------------------------------------------------------- frames
NaN == <<>>
IsNa(c) == c = <<>>
Val(c) == c[1]
Cell(v) == <<v>>

SetMin(S) == CHOOSE x \in S : \A y \in S : x <= y
SetMax(S) == CHOOSE x \in S : \A y \in S : x >= y

\* df.sort_index(): rows in ascending timestamp order (insertion sort, stable)
RECURSIVE InsertRow(_, _)
InsertRow(sorted, r) ==
    IF sorted = <<>> THEN <<r>>
    ELSE IF Head(sorted).ts <= r.ts
         THEN <<Head(sorted)>> \o InsertRow(Tail(sorted), r)
         ELSE <<r>> \o sorted

RECURSIVE sort_index(_)
sort_index(df) ==
    IF df = <<>> THEN <<>>
    ELSE InsertRow(sort_index(SubSeq(df, 1, Len(df) - 1)), df[Len(df)])

\* .asfreq("H"): one row for every hour from the first to the last timestamp,
\* an all-NaN row for an hour the frame does not hold
asfreq(df) ==
    IF df = <<>> THEN <<>>
    ELSE LET t0 == df[1].ts
             t1 == df[Len(df)].ts
         IN  [k \in 1..(t1 - t0 + 1) |->
                LET t == t0 + k - 1
                IN  IF \E j \in 1..Len(df) : df[j].ts = t
                    THEN df[CHOOSE j \in 1..Len(df) : df[j].ts = t]
                    ELSE [c \in DOMAIN df[1] |-> IF c = "ts" THEN t ELSE NaN]]

\* df.isna().rolling(3).sum().fillna(0) of one column at row i: the number of
\* NaN cells in the window i-2..i, and 0 where the window is not yet full
RollWindow == 3
RollingNaSum(df, col, i) ==
    IF i < RollWindow THEN 0
    ELSE Cardinality({j \in (i - RollWindow + 1)..i : IsNa(df[j][col])})

\* small_gap = ... <= 3
GapLimit == 3
small_gap(df, col, i) == RollingNaSum(df, col, i) <= GapLimit

\* df.ffill() of one column at row i: the last non-NaN cell at or before i
ffill(df, col, i) ==
    LET prev == {j \in 1..i : ~IsNa(df[j][col])}
    IN  IF prev = {} THEN NaN ELSE df[SetMax(prev)][col]

\* df.ffill().where(small_gap)
FilledCell(df, col, i) ==
    IF small_gap(df, col, i) THEN ffill(df, col, i) ELSE NaN

\* Series.clip(lower=0)
ClipLower0(c) == IF IsNa(c) THEN c ELSE IF Val(c) < 0 THEN Cell(0) ELSE c

\* ascending sequence of the non-NaN values of a column
RECURSIVE InsertVal(_, _)
InsertVal(sorted, v) ==
    IF sorted = <<>> THEN <<v>>
    ELSE IF Head(sorted) <= v
         THEN <<Head(sorted)>> \o InsertVal(Tail(sorted), v)
         ELSE <<v>> \o sorted

RECURSIVE SortedVals(_, _, _)
SortedVals(df, col, n) ==
    IF n = 0 THEN <<>>
    ELSE IF IsNa(df[n][col]) THEN SortedVals(df, col, n - 1)
         ELSE InsertVal(SortedVals(df, col, n - 1), Val(df[n][col]))

\* Series.quantile(q / 100), linear interpolation between the two order
\* statistics around position (q/100) * (n-1); NaN cells are skipped and a
\* column without values gives NaN
quantile(df, col, q) ==
    LET xs  == SortedVals(df, col, Len(df))
        n   == Len(xs)
        pos == q * (n - 1)
        lo  == pos \div 100
        fr  == pos % 100
    IN  IF n = 0 THEN NaN
        ELSE IF fr = 0 THEN Cell(xs[lo + 1])
        ELSE Cell(xs[lo + 1] + (fr * (xs[lo + 2] - xs[lo + 1])) \div 100)

\* Series.clip(q1, q99): a NaN threshold does not clip
ClipBetween(c, lo, hi) ==
    IF IsNa(c) THEN c
    ELSE LET a == IF ~IsNa(lo) /\ Val(c) < Val(lo) THEN Val(lo) ELSE Val(c)
             b == IF ~IsNa(hi) /\ a > Val(hi) THEN Val(hi) ELSE a
         IN  Cell(b)

QLow == 1
QHigh == 99

\* the "robust clip" loop over ghi_whm2, t2m_c, ws10_ms
RobustClip(df) ==
    LET g1 == quantile(df, "ghi_whm2", QLow)
        g99 == quantile(df, "ghi_whm2", QHigh)
        t1 == quantile(df, "t2m_c", QLow)
        t99 == quantile(df, "t2m_c", QHigh)
        w1 == quantile(df, "ws10_ms", QLow)
        w99 == quantile(df, "ws10_ms", QHigh)
    IN  [i \in 1..Len(df) |->
            [ts       |-> df[i].ts,
             ghi_whm2 |-> ClipBetween(df[i].ghi_whm2, g1, g99),
             t2m_c    |-> ClipBetween(df[i].t2m_c, t1, t99),
             ws10_ms  |-> ClipBetween(df[i].ws10_ms, w1, w99)]]

\* clean_hourly(df): the result frame, or the KeyError that df["ghi_wm2"]
\* raises on a frame without that column
clean_hourly(df) ==
    LET h == asfreq(sort_index(df))
        hasGhi == \A i \in 1..Len(h) : "ghi_wm2" \in DOMAIN h[i]
        g == [i \in 1..Len(h) |->
                [ts       |-> h[i].ts,
                 ghi_whm2 |-> ClipLower0(FilledCell(h, "ghi_wm2", i)),
                 t2m_c    |-> FilledCell(h, "t2m_c", i),
                 ws10_ms  |-> FilledCell(h, "ws10_ms", i)]]
    IN  IF ~hasGhi THEN [err |-> "KeyError", df |-> <<>>]
        ELSE [err |-> "none", df |-> RobustClip(g)]

\* ------------------------------------------------------------------ state
VARIABLES
    cin,      \* SpecClean: the raw hourly frame handed to clean_hourly
    cout,     \* clean_hourly(cin)
    cre,      \* clean_hourly applied to the cleaned frame
    cclip2,   \* the robust-clip loop applied to the cleaned frame
    cpc       \* "off" | "input" | "cleaned" | "recleaned"

cleanVars == <<cin, cout, cre, cclip2, cpc>>

VARIABLES
    zones,       \* zones.parquet: the list of ZoneIDs, in file order
    maxRetries   \* max_retries of fetch_power_hourly

cfgVars == <<zones, maxRetries>>

VARIABLES
    pc,          \* "idle" | "p2_loop" | "p2_fetch" | "p3_loop"
    runs,        \* stage runs started so far
    idx,         \* loop position of the running stage in the zone list
    attempted,   \* zones the running (or last) stage run has visited, in order
    raised,      \* zones whose processing raised in that run
    lastStage,   \* which stage that run is: "none" | "p2" | "p3"
    lastExit     \* how it ended: "none" | "running" | "written" | "abort"

runVars == <<pc, runs, idx, attempted, raised, lastStage, lastExit>>

VARIABLES
    attempt,     \* fetch_power_hourly: the loop variable attempt
    reqLog,      \* outcomes of the requests the current call has issued
    delays,      \* time.sleep arguments of that call, in tenths of a second
    fetchRet     \* how the call ended (kept until main's next step)

fetchVars == <<attempt, reqLog, delays, fetchRet>>

VARIABLES
    cache,       \* RAW_DIR: ZoneID -> the parquet file written for it
    frames,      \* phase2 main: frames
    weather,     \* OUT_PATH of phase 2: weather_hourly.parquet
    simOf,       \* per simulated zone: what the PV simulation of its weather
                 \* gives (pvlib raises, or the hourly AC power series)
    out3,        \* phase3 main: out
    daily,       \* OUT_PATH of phase 3: daily_energy.parquet
    fetchedIn,   \* per fetched zone: its output frame in the run that fetched it
    hitAfter     \* zones served from the cache at least once

dataVars == <<cache, frames, weather, simOf, out3, daily, fetchedIn, hitAfter>>

pipeVars == <<cfgVars, runVars, fetchVars, dataVars>>

VARIABLES
    de,          \* daily_energy.parquet as the QA and feature stages read it:
                 \* <<ZoneID, year>> -> runs of days with equal energy
    detail,      \* OUT_DETAIL: phase4_qaqc.parquet
    summary,     \* OUT_ZONE: phase4_qaqc_summary.csv
    features,    \* FEATURES_PATH: phase4_features.parquet
    edits,       \* changes made to partial years of daily_energy so far
    qlast        \* the QA-side step taken last: "none" | "qa" (both files
                 \* written) | "qa_nocsv" | "features" | "edit"

qaVars == <<de, detail, summary, features, edits, qlast>>

VARIABLES
    ang,         \* add_octant_labels: a zone's centroid angle, in 1/AngleRes degree
    region8      \* the Region8 label to_octant gives it ("unset" before)

octVars == <<ang, region8>>

VARIABLES
    acPath,      \* _pvwatts_ac_robust: how the preferred pvlib call went
    acIn,        \* its argument pdc: hourly DC power cells, in W
    acOut        \* what it returned (fallback: cells in 1/100 W)

acVars == <<acPath, acIn, acOut>>

VARIABLES
    boundary,    \* make_square_grid: the boundary polygon, as a set of tiles
    cellStep,    \* its cell size: step = cell_km * 1000, in length units
    gzones,      \* the zones it returned: ZoneID and geometry (set of tiles)
    zonesFile,   \* OUT_GEOJSON / OUT_PARQUET of phase 1
    gpc          \* phase1 main: "off" | "grid" | "geojson" | "parquet" | "report"
                 \*   | "done" | "failed"

gridVars == <<boundary, cellStep, gzones, zonesFile, gpc>>

VARIABLES
    reqEnd,      \* process_zone: last hour of the requested range [0, reqEnd]
    rawFile,     \* the zone's cache file in RAW_DIR
    procOut,     \* the frame process_zone returned
    procPath     \* the branch the last call took: "none" | "fetch" | "cache"
                 \*   | "raised"

rangeVars == <<reqEnd, rawFile, procOut, procPath>>

VARIABLES
    feat,        \* FEAT_PATH as phase4_plots reads it: ZoneID, date, energy_kwh
    city,        \* CITY_PATH: phase4_city_rollups.parquet
    cityRet      \* what load_city_rollups returned, if it was called since
                 \* the Features table was last written

rollVars == <<feat, city, cityRet>>

sideVars == <<octVars, acVars, gridVars, rangeVars, rollVars>>

vars == <<cleanVars, pipeVars, qaVars, sideVars>>

NoResult == [err |-> "unset", df |-> <<>>]
NoTable == [exists |-> FALSE, rows |-> <<>>]
NoFetch == [kind |-> "none", zone |-> 0, err |-> "none", df |-> <<>>]

\* clean_hourly is not being exercised
CleanIdle ==
    /\ cin = <<>>
    /\ cout = NoResult
    /\ cre = NoResult
    /\ cclip2 = <<>>
    /\ cpc = "off"

\* no stage of the pipeline has run
PipeFresh ==
    /\ pc = "idle"
    /\ runs = 0
    /\ idx = 0
    /\ attempted = <<>>
    /\ raised = {}
    /\ lastStage = "none"
    /\ lastExit = "none"
    /\ attempt = 0
    /\ reqLog = <<>>
    /\ delays = <<>>
    /\ fetchRet = NoFetch
    /\ cache = <<>>
    /\ frames = <<>>
    /\ weather = NoTable
    /\ simOf = <<>>
    /\ out3 = <<>>
    /\ daily = NoTable
    /\ fetchedIn = <<>>
    /\ hitAfter = {}

\* the pipeline stages do not run
PipeIdle ==
    /\ zones = <<>>
    /\ maxRetries = 0
    /\ PipeFresh

\* the QA and feature stages do not run
QaIdle ==
    /\ de = <<>>
    /\ detail = NoTable
    /\ summary = NoTable
    /\ features = NoTable
    /\ edits = 0
    /\ qlast = "none"


NoFile == [exists |-> FALSE, rows |-> <<>>]

\* neither OUT_GEOJSON nor OUT_PARQUET of phase 1 exists
NoZonesFiles == [geojson |-> NoFile, parquet |-> NoFile]

\* the stages outside the weather, simulation and QA pipeline have not run;
\* g names the one stage (if any) whose own Init sets its variables
SideIdleBut(g) ==
    /\ g # "oct" =>
          /\ ang = 0
          /\ region8 = "unset"
    /\ g # "ac" =>
          /\ acPath = "none"
          /\ acIn = <<>>
          /\ acOut = <<>>
    /\ g # "grid" =>
          /\ boundary = {}
          /\ cellStep = 0
          /\ gzones = <<>>
          /\ zonesFile = NoZonesFiles
          /\ gpc = "off"
    /\ g # "range" =>
          /\ reqEnd = 0
          /\ rawFile = NoFile
          /\ procOut = <<>>
          /\ procPath = "none"
    /\ g # "roll" =>
          /\ feat = NoFile
          /\ city = NoFile
          /\ cityRet = NoFile

SideIdle == SideIdleBut("none")

\* ------------------------------------------------ cleaning (inputs)     
TVals == {NaN, Cell(0), Cell(20 * Scale)}
GhiModes == {"shift", "alt"}

\* a raw frame over the hours H with temperature column f; "shift" puts the
\* irradiance 10 below the temperature (negative at night), "alt" leaves
\* every odd hour of irradiance missing
RawRow(h, f, gm) ==
    [ts      |-> h,
     t2m_c   |-> f[h],
     ghi_wm2 |-> IF gm = "shift"
                 THEN (IF IsNa(f[h]) THEN NaN ELSE Cell(Val(f[h]) - 10 * Scale))
                 ELSE (IF h % 2 = 1 THEN NaN ELSE Cell(h * 100 * Scale)),
     ws10_ms |-> IF gm = "shift" THEN Cell(3 * Scale) ELSE f[h]]

RECURSIVE RawFrame(_, _, _, _)
RawFrame(H, f, gm, rev) ==
    IF H = {} THEN <<>>
    ELSE LET h == IF rev THEN SetMax(H) ELSE SetMin(H)
         IN  <<RawRow(h, f, gm)>> \o RawFrame(H \ {h}, f, gm, rev)

InitClean ==
    /\ \E H \in SUBSET (0..(MaxHours - 1)) :
         /\ H # {}
         /\ \E f \in [H -> TVals] : \E gm \in GhiModes : \E rev \in BOOLEAN :
              cin = RawFrame(H, f, gm, rev)
    /\ cout = NoResult
    /\ cre = NoResult
    /\ cclip2 = <<>>
    /\ cpc = "input"
    /\ PipeIdle
    /\ QaIdle
    /\ SideIdle

\* clean = clean_hourly(raw)
Clean ==
    /\ cpc = "input"
    /\ cout' = clean_hourly(cin)
    /\ cpc' = "cleaned"
    /\ UNCHANGED <<cin, cre, cclip2>>
    /\ UNCHANGED <<pipeVars, qaVars, sideVars>>

\* the cleaning step applied to an already-clean frame
ReClean ==
    /\ cpc = "cleaned"
    /\ cout.err = "none"
    /\ cre' = clean_hourly(cout.df)
    /\ cclip2' = RobustClip(cout.df)
    /\ cpc' = "recleaned"
    /\ UNCHANGED <<cin, cout>>
    /\ UNCHANGED <<pipeVars, qaVars, sideVars>>

NextClean == Clean \/ ReClean

SpecClean == InitClean /\ [][NextClean]_vars

\* ------------------------------------------------- phase 2: weather stage
\* sleep=0.6 of fetch_power_hourly, in tenths of a second
SleepTenths == 6

\* hourly series the weather service may answer with (values in 1/Scale):
\* hour 1 is missing from the first, the second has one hour
RawChoices ==
    { << [ts |-> 0, ghi_wm2 |-> Cell((0 - 5) * Scale), t2m_c |-> Cell(10 * Scale),
          ws10_ms |-> Cell(2 * Scale)],
         [ts |-> 2, ghi_wm2 |-> Cell(300 * Scale), t2m_c |-> NaN,
          ws10_ms |-> Cell(4 * Scale)] >>,
      << [ts |-> 0, ghi_wm2 |-> Cell(120 * Scale), t2m_c |-> Cell(25 * Scale),
          ws10_ms |-> NaN] >> }

\* what one requests.get(...) plus parsing gives: the frame, or an exception
\* (a network/HTTP error, or RuntimeError("No POWER data returned"))
RequestOutcomes ==
    {[kind |-> "ok", df |-> r] : r \in RawChoices}
        \cup {[kind |-> k, df |-> <<>>] : k \in {"http", "empty"}}

\* fault variant: the last failure is swallowed like the earlier ones
IsLastAttemptNever(a) == FALSE

\* if attempt == max_retries: raise
IsLastAttempt(a) == a = maxRetries

\* time.sleep(sleep * attempt)
SleepDelay(a) == SleepTenths * a

\* tmp = raw.copy(); tmp["ts"] = tmp.index; tmp.to_parquet(raw_fp)
ToParquet(raw) ==
    [k \in 1..Len(raw) |->
        [index |-> raw[k].ts, ts |-> raw[k].ts, ghi_wm2 |-> raw[k].ghi_wm2,
         t2m_c |-> raw[k].t2m_c, ws10_ms |-> raw[k].ws10_ms]]

\* pd.read_parquet(raw_fp).set_index("ts")
ReadCache(file) ==
    [k \in 1..Len(file) |->
        [ts |-> file[k].ts, ghi_wm2 |-> file[k].ghi_wm2,
         t2m_c |-> file[k].t2m_c, ws10_ms |-> file[k].ws10_ms]]

\* fault variant: the cache file is never found
CacheExistsNever(zid) == FALSE

\* os.path.exists(raw_fp)
CacheExists(zid) == zid \in DOMAIN cache

\* clean.insert(0, "ZoneID", zid); clean[["ZoneID", "ts", ...]]
OutFrame(zid, df) ==
    [k \in 1..Len(df) |->
        [ZoneID |-> zid, ts |-> df[k].ts, ghi_whm2 |-> df[k].ghi_whm2,
         t2m_c |-> df[k].t2m_c, ws10_ms |-> df[k].ws10_ms]]

\* pd.concat(frames, ignore_index=True)
RECURSIVE Concat(_)
Concat(fs) == IF fs = <<>> THEN <<>> ELSE Head(fs).df \o Concat(Tail(fs))

\* sort_values(["ZoneID", key]): stable insertion sort
RowLeq(a, b, key) ==
    \/ a.ZoneID < b.ZoneID
    \/ a.ZoneID = b.ZoneID /\ a[key] <= b[key]

RECURSIVE InsertByKey(_, _, _)
InsertByKey(sorted, r, key) ==
    IF sorted = <<>> THEN <<r>>
    ELSE IF RowLeq(Head(sorted), r, key)
         THEN <<Head(sorted)>> \o InsertByKey(Tail(sorted), r, key)
         ELSE <<r>> \o sorted

RECURSIVE sort_values(_, _)
sort_values(df, key) ==
    IF df = <<>> THEN <<>>
    ELSE InsertByKey(sort_values(SubSeq(df, 1, Len(df) - 1), key), df[Len(df)], key)

\* the zones that have rows in a persisted table
ZonesIn(table) == {table.rows[k].ZoneID : k \in 1..Len(table.rows)}

\* the locals of a finished fetch_power_hourly call are gone
FetchCleared ==
    /\ attempt' = 0
    /\ reqLog' = <<>>
    /\ delays' = <<>>
    /\ fetchRet' = NoFetch

\* main(): zones = read_parquet(...); frames = []
P2Start ==
    /\ pc = "idle"
    /\ runs < MaxRuns
    /\ pc' = "p2_loop"
    /\ runs' = runs + 1
    /\ idx' = 1
    /\ frames' = <<>>
    /\ attempted' = <<>>
    /\ raised' = {}
    /\ lastStage' = "p2"
    /\ lastExit' = "running"
    /\ UNCHANGED <<cache, weather, simOf, out3, daily, fetchedIn, hitAfter>>
    /\ UNCHANGED <<cfgVars, fetchVars, cleanVars, qaVars, sideVars>>

\* process_zone, cache file present: read it, clean it; main appends the frame
P2ZoneCached ==
    /\ pc = "p2_loop"
    /\ idx <= Len(zones)
    /\ CacheExists(zones[idx])
    /\ LET zid == zones[idx]
           c == clean_hourly(ReadCache(cache[zid]))
       IN  /\ attempted' = Append(attempted, zid)
           /\ hitAfter' = hitAfter \cup {zid}
           /\ IF c.err = "none"
              THEN /\ frames' = Append(frames, [zone |-> zid, df |-> OutFrame(zid, c.df)])
                   /\ raised' = raised
              ELSE /\ frames' = frames
                   /\ raised' = raised \cup {zid}
    /\ idx' = idx + 1
    /\ FetchCleared
    /\ UNCHANGED <<pc, runs, lastStage, lastExit>>
    /\ UNCHANGED <<cache, weather, simOf, out3, daily, fetchedIn>>
    /\ UNCHANGED <<cfgVars, cleanVars, qaVars, sideVars>>

\* process_zone, no cache file: enter fetch_power_hourly
P2ZoneFetch ==
    /\ pc = "p2_loop"
    /\ idx <= Len(zones)
    /\ ~CacheExists(zones[idx])
    /\ pc' = "p2_fetch"
    /\ attempt' = 1
    /\ reqLog' = <<>>
    /\ delays' = <<>>
    /\ fetchRet' = [kind |-> "running", zone |-> zones[idx], err |-> "none", df |-> <<>>]
    /\ attempted' = Append(attempted, zones[idx])
    /\ UNCHANGED <<runs, idx, raised, lastStage, lastExit>>
    /\ UNCHANGED <<cfgVars, dataVars, cleanVars, qaVars, sideVars>>

\* one iteration of the retry loop: the request, then return / raise / sleep.
\* A returned frame is written to the cache and cleaned by process_zone and
\* appended by main; an exception leaving fetch_power_hourly is caught by main.
FetchRequest ==
    /\ pc = "p2_fetch"
    /\ \E o \in RequestOutcomes :
        LET zid == zones[idx]
            c == clean_hourly(o.df)
        IN
        /\ reqLog' = Append(reqLog, o)
        /\ IF o.kind = "ok"
           THEN /\ fetchRet' = [kind |-> "returned", zone |-> zid, err |-> "none", df |-> o.df]
                /\ cache' = cache @@ (zid :> ToParquet(o.df))
                /\ IF c.err = "none"
                   THEN /\ frames' = Append(frames, [zone |-> zid, df |-> OutFrame(zid, c.df)])
                        /\ fetchedIn' = fetchedIn @@ (zid :> OutFrame(zid, c.df))
                        /\ raised' = raised
                   ELSE /\ frames' = frames
                        /\ fetchedIn' = fetchedIn
                        /\ raised' = raised \cup {zid}
                /\ pc' = "p2_loop"
                /\ idx' = idx + 1
                /\ UNCHANGED <<attempt, delays>>
           ELSE IF IsLastAttempt(attempt)
           THEN /\ fetchRet' = [kind |-> "raised", zone |-> zid, err |-> o.kind, df |-> <<>>]
                /\ raised' = raised \cup {zid}
                /\ pc' = "p2_loop"
                /\ idx' = idx + 1
                /\ UNCHANGED <<attempt, delays, cache, frames, fetchedIn>>
           ELSE IF attempt + 1 > maxRetries
           THEN \* the for loop ends without a return: the call gives None, and
                \* raw.copy() in process_zone raises
                /\ fetchRet' = [kind |-> "returned", zone |-> zid, err |-> "none", df |-> <<>>]
                /\ delays' = Append(delays, SleepDelay(attempt))
                /\ raised' = raised \cup {zid}
                /\ pc' = "p2_loop"
                /\ idx' = idx + 1
                /\ UNCHANGED <<attempt, cache, frames, fetchedIn>>
           ELSE /\ delays' = Append(delays, SleepDelay(attempt))
                /\ attempt' = attempt + 1
                /\ UNCHANGED <<fetchRet, raised, pc, idx, cache, frames, fetchedIn>>
    /\ UNCHANGED <<runs, attempted, lastStage, lastExit>>
    /\ UNCHANGED <<weather, simOf, out3, daily, hitAfter>>
    /\ UNCHANGED <<cfgVars, cleanVars, qaVars, sideVars>>

\* after the loop: SystemExit when no frame was collected, else concat, sort
\* and write weather_hourly.parquet
P2Finish ==
    /\ pc = "p2_loop"
    /\ idx > Len(zones)
    /\ pc' = "idle"
    /\ IF frames = <<>>
       THEN /\ lastExit' = "abort"
            /\ weather' = weather
       ELSE /\ lastExit' = "written"
            /\ weather' = [exists |-> TRUE, rows |-> sort_values(Concat(frames), "ts")]
    /\ FetchCleared
    /\ UNCHANGED <<runs, idx, attempted, raised, lastStage>>
    /\ UNCHANGED <<cache, frames, simOf, out3, daily, fetchedIn, hitAfter>>
    /\ UNCHANGED <<cfgVars, cleanVars, qaVars, sideVars>>

\* ---------------------------------------------- phase 3: simulation stage
\* hours of a local calendar day (the bins of resample("D"))
HoursPerDay == 24

\* min_count of resample("D").sum(min_count=20)
MinCount == 20

\* W -> kWh: "/ 1000.0"
KwhDen == 1000

\* the non-NaN hours of a day of hourly AC power
ValidHours(day) == {h \in 1..Len(day) : ~IsNa(day[h])}

RECURSIVE SumCells(_, _)
SumCells(day, n) ==
    IF n = 0 THEN 0
    ELSE SumCells(day, n - 1) + (IF IsNa(day[n]) THEN 0 ELSE Val(day[n]))

\* fault variant: the daily sum without min_count
DailyKwhNoMin(day) == Cell([num |-> SumCells(day, Len(day)), den |-> KwhDen])

\* pac_w.resample("D").sum(min_count=20) / 1000.0 for one day: NaN with fewer
\* than min_count non-NaN values, else the sum as the fraction num/den kWh
DailyKwh(day) ==
    IF Cardinality(ValidHours(day)) >= MinCount
    THEN Cell([num |-> SumCells(day, Len(day)), den |-> KwhDen])
    ELSE NaN

\* pvwatts_daily_kwh(...): the Series date -> energy_kwh over the days the
\* hourly AC power series pac covers
pvwatts_daily_kwh(pac) ==
    [d \in 1..Len(pac) |-> [date |-> d, energy_kwh |-> DailyKwh(pac[d])]]

\* df_daily = daily.reset_index(); df_daily.insert(0, "ZoneID", zid)
DailyFrame(zid, ser) ==
    [d \in 1..Len(ser) |->
        [ZoneID |-> zid, date |-> ser[d].date, energy_kwh |-> ser[d].energy_kwh]]

\* fault variant: rows without energy are kept
dropnaKeep(df) == df

\* .dropna(subset=["energy_kwh"])
HasEnergy(r) == ~IsNa(r.energy_kwh)
dropna(df) == SelectSeq(df, HasEnergy)

\* dfz = w[w.ZoneID == zid]; dfz.empty
HasWeather(zid) == zid \in ZonesIn(weather)

\* main(): w = read_parquet(WEATHER_PATH); out = []
P3Start ==
    /\ pc = "idle"
    /\ runs < MaxRuns
    /\ weather.exists
    /\ pc' = "p3_loop"
    /\ runs' = runs + 1
    /\ idx' = 1
    /\ out3' = <<>>
    /\ attempted' = <<>>
    /\ raised' = {}
    /\ lastStage' = "p3"
    /\ lastExit' = "running"
    /\ UNCHANGED <<cache, frames, weather, simOf, daily, fetchedIn, hitAfter>>
    /\ UNCHANGED <<cfgVars, fetchVars, cleanVars, qaVars, sideVars>>

\* one iteration over zone_ids: skip a zone without weather rows; simulate;
\* an exception of the simulation is caught and the zone skipped.  What the
\* simulation of a zone's weather gives is drawn from Sims the first time and
\* is the same on every later run (the zone's weather never changes).
P3ZoneWith(Sims) ==
    /\ pc = "p3_loop"
    /\ idx <= Len(zones)
    /\ LET zid == zones[idx]
       IN  /\ attempted' = Append(attempted, zid)
           /\ IF ~HasWeather(zid)
              THEN UNCHANGED <<out3, raised, simOf>>
              ELSE \E o \in (IF zid \in DOMAIN simOf THEN {simOf[zid]} ELSE Sims) :
                     /\ simOf' = IF zid \in DOMAIN simOf THEN simOf ELSE simOf @@ (zid :> o)
                     /\ IF o.raises
                        THEN /\ raised' = raised \cup {zid}
                             /\ out3' = out3
                        ELSE /\ out3' = Append(out3,
                                    [zone |-> zid,
                                     df |-> DailyFrame(zid, pvwatts_daily_kwh(o.pac))])
                             /\ raised' = raised
    /\ idx' = idx + 1
    /\ UNCHANGED <<pc, runs, lastStage, lastExit>>
    /\ UNCHANGED <<cache, frames, weather, daily, fetchedIn, hitAfter>>
    /\ UNCHANGED <<cfgVars, fetchVars, cleanVars, qaVars, sideVars>>

\* after the loop: SystemExit when out is empty, else concat, dropna, sort and
\* write daily_energy.parquet
P3Finish ==
    /\ pc = "p3_loop"
    /\ idx > Len(zones)
    /\ pc' = "idle"
    /\ IF out3 = <<>>
       THEN /\ lastExit' = "abort"
            /\ daily' = daily
       ELSE /\ lastExit' = "written"
            /\ daily' = [exists |-> TRUE,
                         rows |-> sort_values(dropna(Concat(out3)), "date")]
    /\ UNCHANGED <<runs, idx, attempted, raised, lastStage>>
    /\ UNCHANGED <<cache, frames, weather, simOf, out3, fetchedIn, hitAfter>>
    /\ UNCHANGED <<cfgVars, fetchVars, cleanVars, qaVars, sideVars>>

\* ------------------------------------------------- pipeline specification
\* the lists of n distinct ZoneIDs 1..n, in any file order
ZoneLists(n) ==
    {zs \in [1..n -> 1..n] : \A a, b \in 1..n : zs[a] = zs[b] => a = b}

\* a day of hourly AC power with its first nvalid hours valid
PacDay(nvalid, level) ==
    [h \in 1..HoursPerDay |-> IF h <= nvalid THEN Cell(level * h) ELSE NaN]

\* simulation outcomes of Spec: pvlib raises; one day with all
\* hours valid; one day with 19 valid hours
CoarseSims ==
    { [raises |-> TRUE, pac |-> <<>>],
      [raises |-> FALSE, pac |-> <<PacDay(HoursPerDay, 500)>>],
      [raises |-> FALSE, pac |-> <<PacDay(MinCount - 1, 500)>>] }

P3Zone == P3ZoneWith(CoarseSims)

Init ==
    /\ \E n \in 1..MaxZones : zones \in ZoneLists(n)
    /\ maxRetries \in 1..MaxRetries
    /\ PipeFresh
    /\ CleanIdle
    /\ QaIdle
    /\ SideIdle

Next ==
    \/ P2Start
    \/ P2ZoneCached
    \/ P2ZoneFetch
    \/ FetchRequest
    \/ P2Finish
    \/ P3Start
    \/ P3Zone
    \/ P3Finish

Spec == Init /\ [][Next]_vars

\* ----------------------------------------------- simulation specification
\* days of hourly AC power of SpecSim: 19 valid hours, 20 valid
\* hours, and a full day of zero power
FineDays ==
    { PacDay(MinCount - 1, 500), PacDay(MinCount, 500), PacDay(HoursPerDay, 0) }

DaySeqs == UNION {[1..n -> FineDays] : n \in 1..MaxDays}

FineSims ==
    {[raises |-> TRUE, pac |-> <<>>]}
        \cup {[raises |-> FALSE, pac |-> p] : p \in DaySeqs}

P3ZoneFine == P3ZoneWith(FineSims)

\* the frames a weather run collects when exactly the zones of ok succeed,
\* each with the first series of RawChoices
SimRaw == CHOOSE r \in RawChoices : Len(r) = 2

RECURSIVE FramesOf(_, _, _)
FramesOf(zs, ok, k) ==
    IF k > Len(zs) THEN <<>>
    ELSE (IF zs[k] \in ok
          THEN <<[zone |-> zs[k], df |-> OutFrame(zs[k], clean_hourly(SimRaw).df)]>>
          ELSE <<>>) \o FramesOf(zs, ok, k + 1)

\* the state a completed weather run leaves: the zones of ok fetched, cached
\* and written, the other zones skipped after exhausted retries
InitSim ==
    /\ \E n \in 1..MaxSimZones : \E ok \in SUBSET (1..n) :
         /\ ok # {}
         /\ zones = [k \in 1..n |-> k]
         /\ cache = [z \in ok |-> ToParquet(SimRaw)]
         /\ frames = FramesOf(zones, ok, 1)
         /\ weather = [exists |-> TRUE, rows |-> sort_values(Concat(frames), "ts")]
         /\ fetchedIn = [z \in ok |-> OutFrame(z, clean_hourly(SimRaw).df)]
         /\ attempted = zones
         /\ raised = (1..n) \ ok
         /\ idx = n + 1
    /\ maxRetries = 1
    /\ pc = "idle"
    /\ runs = MaxRuns - 1
    /\ lastStage = "p2"
    /\ lastExit = "written"
    /\ attempt = 0
    /\ reqLog = <<>>
    /\ delays = <<>>
    /\ fetchRet = NoFetch
    /\ simOf = <<>>
    /\ out3 = <<>>
    /\ daily = NoTable
    /\ hitAfter = {}
    /\ CleanIdle
    /\ QaIdle
    /\ SideIdle

NextSim ==
    \/ P3Start
    \/ P3ZoneFine
    \/ P3Finish

SpecSim == InitSim /\ [][NextSim]_vars

\* ---------------------------------------------------- phase 4: QA/QC stage
QaZones == 1..MaxQaZones
QaYears == {2023, 2024}

\* energies are integers in hundredths of a kWh
CentiPerKwh == 100

SYSTEM_KW == 10

TH_FULL ==
    [min_days |-> 330,
     max_zero_days |-> 40,
     cap_factor_lo |-> [num |-> 12, den |-> 100],
     cap_factor_hi |-> [num |-> 28, den |-> 100],
     mean_kwh_lo |-> [num |-> 5, den |-> 1],
     mean_kwh_hi |-> [num |-> 60, den |-> 1]]

FULL_YEAR_DAY_MIN == 360

\* g["energy_kwh"] <= 0.01, in hundredths of a kWh
ZeroDayCenti == 1

\* a zone-year's group g is a sequence of blocks [n, e]: n days of energy e
RECURSIVE Days(_)
Days(g) == IF g = <<>> THEN 0 ELSE Head(g).n + Days(Tail(g))

RECURSIVE ZeroDays(_)
ZeroDays(g) ==
    IF g = <<>> THEN 0
    ELSE (IF Head(g).e <= ZeroDayCenti THEN Head(g).n ELSE 0) + ZeroDays(Tail(g))

RECURSIVE Annual(_)
Annual(g) == IF g = <<>> THEN 0 ELSE Head(g).n * Head(g).e + Annual(Tail(g))

\* agg(g): the zone-year aggregates, energies as fractions num/den of a kWh
agg(g) ==
    [days |-> Days(g),
     zero_days |-> ZeroDays(g),
     annual_kwh |-> [num |-> Annual(g), den |-> CentiPerKwh],
     cap_factor |-> [num |-> Annual(g), den |-> CentiPerKwh * SYSTEM_KW * 24 * 365],
     mean_kwh |-> [num |-> Annual(g), den |-> CentiPerKwh * Days(g)]]

LeqRat(a, b) == a.num * b.den <= b.num * a.den

\* fault variant: Series.between with the bounds excluded
betweenOpen(x, lo, hi) == ~LeqRat(x, lo) /\ ~LeqRat(hi, x)

\* Series.between(lo, hi): inclusive on both sides
between(x, lo, hi) == LeqRat(lo, x) /\ LeqRat(x, hi)

\* fault variant: a year counts as full from min_days on
is_full_year_min_days(days) == days >= TH_FULL.min_days

\* s["is_full_year"] = s["days"] >= FULL_YEAR_DAY_MIN
is_full_year(days) == days >= FULL_YEAR_DAY_MIN

\* one row of stats with the rule booleans and qa_pass_year
StatRow(z, y, g) ==
    LET a == agg(g)
        ok_days == a.days >= TH_FULL.min_days
        ok_zero_days == a.zero_days <= TH_FULL.max_zero_days
        ok_cf == between(a.cap_factor, TH_FULL.cap_factor_lo, TH_FULL.cap_factor_hi)
        ok_mean == between(a.mean_kwh, TH_FULL.mean_kwh_lo, TH_FULL.mean_kwh_hi)
    IN  [ZoneID |-> z, year |-> y, days |-> a.days, zero_days |-> a.zero_days,
         annual_kwh |-> a.annual_kwh, cap_factor |-> a.cap_factor,
         mean_kwh |-> a.mean_kwh,
         is_full_year |-> is_full_year(a.days),
         ok_days |-> ok_days, ok_zero_days |-> ok_zero_days,
         ok_cf |-> ok_cf, ok_mean |-> ok_mean,
         qa_pass_year |-> ok_days /\ ok_zero_days /\ ok_cf /\ ok_mean]

\* the zone-years in the order of sort_values(["ZoneID", "year"])
ZoneYearKeys ==
    [k \in 1..(2 * MaxQaZones) |-> <<((k - 1) \div 2) + 1, 2023 + ((k - 1) % 2)>>]

\* de.groupby(["ZoneID", "year"]).apply(agg) with the rule columns: one row
\* per zone-year that has rows in the table d
HasRows(d, key) == d[key] # <<>>

RECURSIVE StatsFrom(_, _)
StatsFrom(d, k) ==
    IF k > Len(ZoneYearKeys) THEN <<>>
    ELSE LET key == ZoneYearKeys[k]
         IN  (IF HasRows(d, key) THEN <<StatRow(key[1], key[2], d[key])>> ELSE <<>>)
                 \o StatsFrom(d, k + 1)

Stats(d) == StatsFrom(d, 1)

\* full = s[s["is_full_year"]]
IsFullRow(r) == r.is_full_year
FullRows(s) == SelectSeq(s, IsFullRow)

RowsOfZone(s, z) == {k \in 1..Len(s) : s[k].ZoneID = z}

\* full.groupby("ZoneID").agg(n_full_pass=("qa_pass_year", "sum")) after the
\* left merge: NaN for a zone without a full year
MergedFullPass(s, z) ==
    LET full == FullRows(s)
    IN  IF RowsOfZone(full, z) = {} THEN NaN
        ELSE Cell(Cardinality({k \in RowsOfZone(full, z) : full[k].qa_pass_year}))

\* .fillna(0).astype(int)
fillna0(c) == IF IsNa(c) THEN 0 ELSE Val(c)

\* recent_full: the last full year per zone and its outcome, NaN after the
\* left merge for a zone without a full year
RecentFull(s, z) ==
    LET full == FullRows(s)
        ks == RowsOfZone(full, z)
    IN  IF ks = {} THEN [year |-> NaN, pass |-> NaN]
        ELSE LET k == CHOOSE x \in ks : \A o \in ks : full[o].year <= full[x].year
             IN  [year |-> Cell(full[k].year), pass |-> Cell(full[k].qa_pass_year)]

\* one row of zone_summary
ZoneSummaryRow(s, z) ==
    LET n_full_pass == fillna0(MergedFullPass(s, z))
    IN  [ZoneID |-> z,
         n_years |-> Cardinality({s[k].year : k \in RowsOfZone(s, z)}),
         n_full_years |-> Cardinality({k \in RowsOfZone(s, z) : s[k].is_full_year}),
         n_full_pass |-> n_full_pass,
         qa_pass_zone |-> n_full_pass > 0,
         latest_full_year |-> RecentFull(s, z).year,
         latest_full_year_pass |-> RecentFull(s, z).pass]

RECURSIVE ZoneSummaryFrom(_, _)
ZoneSummaryFrom(s, z) ==
    IF z > MaxQaZones THEN <<>>
    ELSE (IF RowsOfZone(s, z) = {} THEN <<>> ELSE <<ZoneSummaryRow(s, z)>>)
             \o ZoneSummaryFrom(s, z + 1)

zone_summary(s) == ZoneSummaryFrom(s, 1)

\* to_csv: a boolean is written as the text True or False
BoolText(b) == IF b THEN "True" ELSE "False"

to_csv(zs) ==
    [k \in 1..Len(zs) |-> [zs[k] EXCEPT !.qa_pass_zone = BoolText(zs[k].qa_pass_zone)]]

\* ------------------------------------------- phase 4: QA filter of features
\* read_csv: a column holding only True/False is parsed as boolean
BoolTexts == {"True", "False"}
ParsedAsBool(rows) == \A k \in 1..Len(rows) : rows[k].qa_pass_zone \in BoolTexts

\* flag.astype(str).str.strip().str.lower().isin(["true", "1", "yes", "y"])
TruthyTexts == {"True", "true", "TRUE", "1", "yes", "Yes", "YES", "y", "Y"}

CsvFlag(rows, k) ==
    IF ParsedAsBool(rows) THEN rows[k].qa_pass_zone = "True"
    ELSE rows[k].qa_pass_zone \in TruthyTexts

\* the pass-flag column names the parquet fallback looks for
PassColNames == {"qa_pass", "qa_pass_diag", "qa"}

\* get_good_zones(): the summary CSV if it has the qa_pass_zone column, else
\* the per-year parquet (by a pass column over full years if it has one,
\* else every zone present), else the empty set
get_good_zones ==
    IF summary.exists /\ "qa_pass_zone" \in DOMAIN summary.rows[1]
    THEN {summary.rows[k].ZoneID : k \in {j \in 1..Len(summary.rows) : CsvFlag(summary.rows, j)}}
    ELSE IF detail.exists
    THEN LET qy == detail.rows
             passCols == DOMAIN qy[1] \cap PassColNames
         IN  IF passCols # {}
             THEN LET pass_col == CHOOSE c \in passCols : TRUE
                  IN  {qy[k].ZoneID : k \in {j \in 1..Len(qy) :
                                              qy[j].days >= 360 /\ qy[j][pass_col]}}
             ELSE {qy[k].ZoneID : k \in 1..Len(qy)}
    ELSE {}

\* set(de["ZoneID"].unique())
ZonesOf(d) == {z \in QaZones : \E y \in QaYears : d[<<z, y>>] # <<>>}

\* ------------------------------------------------------------ QA-side steps
\* zone-years SpecQA draws from: absent; a full passing year; a full
\* failing year; a partial year passing all four rules; a partial year
\* failing ok_days
Absent == <<>>
FullPass == <<[n |-> 365, e |-> 3000]>>
FullFail == <<[n |-> 365, e |-> 2000]>>
PartialPass == <<[n |-> 359, e |-> 3000]>>
PartialFail == <<[n |-> 300, e |-> 4000]>>

CoreYears == {Absent, FullPass, FullFail, PartialPass, PartialFail}
PartialYears == {Absent, PartialPass, PartialFail}

\* zone-years on and next to each threshold
BoundaryYears ==
    { <<[n |-> 364, e |-> 2800], [n |-> 1, e |-> 32000]>>,   \* cap factor 0.12
      <<[n |-> 364, e |-> 2800], [n |-> 1, e |-> 31999]>>,   \* just below
      <<[n |-> 364, e |-> 6700], [n |-> 1, e |-> 14000]>>,   \* cap factor 0.28
      <<[n |-> 364, e |-> 6700], [n |-> 1, e |-> 14001]>>,   \* just above
      <<[n |-> 365, e |-> 6000]>>,                            \* mean 60
      <<[n |-> 365, e |-> 6001]>>,
      <<[n |-> 365, e |-> 500]>>,                             \* mean 5
      <<[n |-> 365, e |-> 499]>>,
      <<[n |-> 40, e |-> 1], [n |-> 325, e |-> 4000]>>,       \* 40 zero days
      <<[n |-> 41, e |-> 1], [n |-> 324, e |-> 4000]>>,       \* 41 zero days
      <<[n |-> 41, e |-> 2], [n |-> 324, e |-> 4000]>>,       \* 0.02 kWh days
      <<[n |-> 330, e |-> 3500]>>,
      <<[n |-> 329, e |-> 3500]>>,
      <<[n |-> 360, e |-> 3000]>> }

\* the two years of a zone other than zone 1: no rows; passing; failing
\* with a partial year that passes the rules; only a partial year; failing
\* then passing
OtherHistories ==
    { <<Absent, Absent>>, <<FullPass, Absent>>, <<FullFail, PartialPass>>,
      <<PartialFail, Absent>>, <<FullFail, FullPass>> }

\* a daily energy table with at least one row: zone 1 with every pair of
\* CoreYears and the other zones with one of OtherHistories, or a single
\* zone-year on a threshold
InitQA ==
    /\ \/ /\ de \in [QaZones \X QaYears -> CoreYears]
          /\ \A z \in QaZones \ {1} : <<de[<<z, 2023>>], de[<<z, 2024>>]>> \in OtherHistories
          /\ ZonesOf(de) # {}
       \/ \E g \in BoundaryYears :
             de = [key \in QaZones \X QaYears |-> IF key = <<1, 2023>> THEN g ELSE Absent]
    /\ detail = NoTable
    /\ summary = NoTable
    /\ features = NoTable
    /\ edits = 0
    /\ qlast = "none"
    /\ CleanIdle
    /\ PipeIdle
    /\ SideIdle

\* phase4_qaqc main(): the detail parquet is written first, then the summary
\* CSV; csvOk = FALSE is a run that ends between the two writes
QaMain ==
    \E csvOk \in BOOLEAN :
        /\ detail' = [exists |-> TRUE, rows |-> Stats(de)]
        /\ summary' = IF csvOk
                      THEN [exists |-> TRUE, rows |-> to_csv(zone_summary(Stats(de)))]
                      ELSE summary
        /\ qlast' = IF csvOk THEN "qa" ELSE "qa_nocsv"
        /\ UNCHANGED <<de, features, edits>>
        /\ UNCHANGED <<cleanVars, pipeVars, sideVars>>

\* phase4_features main(): the zones whose rows the features are built from
FeaturesMain ==
    /\ LET good == get_good_zones
           used == IF good = {} THEN ZonesOf(de) ELSE good
       IN  features' = [exists |-> TRUE,
                        zones |-> ZonesOf(de) \cap used,
                        warned |-> good = {},
                        qaCsv |-> summary.exists,
                        qaParquet |-> detail.exists]
    /\ qlast' = "features"
    /\ UNCHANGED <<de, detail, summary, edits>>
    /\ UNCHANGED <<cleanVars, pipeVars, sideVars>>

\* a later simulation run changes the table in a partial year only: a
\* partial year is added, removed or replaced by another partial year
EditPartial ==
    /\ edits < MaxEdits
    /\ \E key \in QaZones \X QaYears : \E g \in PartialYears :
          /\ ~is_full_year(Days(de[key]))
          /\ g # de[key]
          /\ de' = [de EXCEPT ![key] = g]
          /\ ZonesOf(de') # {}
    /\ edits' = edits + 1
    /\ qlast' = "edit"
    /\ UNCHANGED <<detail, summary, features>>
    /\ UNCHANGED <<cleanVars, pipeVars, sideVars>>

\* QA runs over a table whose partial years change between runs
NextQA ==
    \/ QaMain
    \/ EditPartial

SpecQA == InitQA /\ [][NextQA]_vars

\* QA and feature runs over one table, in any order
NextFeat ==
    \/ QaMain
    \/ FeaturesMain

SpecFeat == InitQA /\ [][NextFeat]_vars

\* ---------------------------------------------------------------------
\* phase1_zones.py: add_octant_labels
\* ---------------------------------------------------------------------

\* angles are held in units of 1/AngleRes degree; a threshold of h half
\* degrees is compared as 2 * a ? h * AngleRes
AngleRes == 2

\* to_octant, branch by branch; the last branch is the code's "NA"
to_octantClosed(a) ==
    LET h == 2 * a
        R == AngleRes
    IN  IF -45 * R <= h /\ h <= 45 * R THEN "E"
        ELSE IF 45 * R <= h /\ h < 135 * R THEN "NE"
        ELSE IF 135 * R <= h /\ h < 225 * R THEN "N"
        ELSE IF 225 * R <= h /\ h < 315 * R THEN "NW"
        ELSE IF h >= 315 * R \/ h < -315 * R THEN "W"
        ELSE IF -315 * R <= h /\ h < -225 * R THEN "SW"
        ELSE IF -225 * R <= h /\ h < -135 * R THEN "S"
        ELSE IF -135 * R <= h /\ h < -45 * R THEN "SE"
        ELSE "NA"

to_octant(a) ==
    LET h == 2 * a
        R == AngleRes
    IN  IF -45 * R <= h /\ h < 45 * R THEN "E"
        ELSE IF 45 * R <= h /\ h < 135 * R THEN "NE"
        ELSE IF 135 * R <= h /\ h < 225 * R THEN "N"
        ELSE IF 225 * R <= h /\ h < 315 * R THEN "NW"
        ELSE IF h >= 315 * R \/ h < -315 * R THEN "W"
        ELSE IF -315 * R <= h /\ h < -225 * R THEN "SW"
        ELSE IF -225 * R <= h /\ h < -135 * R THEN "S"
        ELSE IF -135 * R <= h /\ h < -45 * R THEN "SE"
        ELSE "NA"

InitOct ==
    \* np.degrees(np.arctan2(dy, dx)) lies in [-180, 180]
    /\ ang \in (-180 * AngleRes)..(180 * AngleRes)
    /\ region8 = "unset"
    /\ SideIdleBut("oct")
    /\ CleanIdle /\ PipeIdle /\ QaIdle

\* zones["Region8"] = [to_octant(a) for a in ang]
AddOctantLabels ==
    /\ region8 = "unset"
    /\ region8' = to_octant(ang)
    /\ UNCHANGED <<ang, acVars, gridVars, rangeVars, rollVars>>
    /\ UNCHANGED <<cleanVars, pipeVars, qaVars>>

SpecOct == InitOct /\ [][AddOctantLabels]_vars

\* ---------------------------------------------------------------------
\* phase3_pv_groundtruth.py: _pvwatts_ac_robust
\* ---------------------------------------------------------------------

MaxAcLen == 2

\* PVWATTS_INV_EFF = 0.96, in percent; AC power is held in 1/100 W
EtaPct == 96

\* pdc0_w = SYSTEM_KW_DC * 1000.0
Pdc0W == 10000

\* DC power of an hour, in W, as pvwatts_dc hands it over: missing, negative,
\* zero, nominal, rated, just above rated, far above rated
PdcCells == {NaN} \cup {Cell(w) : w \in {-500, 0, 4000, Pdc0W, Pdc0W + 1, 15000}}

\* how the try block ends: the pvlib call returns, the import raises, the
\* module has no pvwatts attribute, or the call raises
AcPaths == {"pvlib", "import_fails", "no_attr", "call_raises"}

np_clipLowerOnly(x, lo, hi) == SetMax({x, lo})

\* np.clip on one number
np_clip(x, lo, hi) == SetMin({SetMax({x, lo}), hi})

\* pac = eta_inv_nom * pdc; pac = np.clip(pac, 0.0, eta_inv_nom * pdc0_w);
\* a missing hour stays missing through both steps
ac_fallback(p, pdc0_w, eta) ==
    [h \in 1..Len(p) |->
        IF IsNa(p[h]) THEN NaN
        ELSE Cell(np_clip(eta * Val(p[h]), 0, eta * pdc0_w))]

\* what pvlib's inverter.pvwatts may return for a series of this length; the
\* library is outside the repository, so any series of cells is allowed
LibAcCells == {NaN, Cell(0), Cell(EtaPct * Pdc0W)}

InitAc ==
    /\ acPath \in AcPaths
    /\ \E n \in 1..MaxAcLen : acIn \in [1..n -> PdcCells]
    /\ acOut = <<>>
    /\ SideIdleBut("ac")
    /\ CleanIdle /\ PipeIdle /\ QaIdle

\* the try block returns inverter.pvwatts(pdc, pdc0=pdc0_w, eta_inv_nom=...)
AcPreferred ==
    /\ acPath = "pvlib"
    /\ acOut = <<>>
    /\ \E out \in [1..Len(acIn) -> LibAcCells] : acOut' = out
    /\ UNCHANGED <<acPath, acIn, octVars, gridVars, rangeVars, rollVars>>
    /\ UNCHANGED <<cleanVars, pipeVars, qaVars>>

\* except Exception: pass, or hasattr is false: the fallback below the try
AcFallback ==
    /\ acPath \in {"import_fails", "no_attr", "call_raises"}
    /\ acOut = <<>>
    /\ acOut' = ac_fallback(acIn, Pdc0W, EtaPct)
    /\ UNCHANGED <<acPath, acIn, octVars, gridVars, rangeVars, rollVars>>
    /\ UNCHANGED <<cleanVars, pipeVars, qaVars>>

SpecAc == InitAc /\ [][AcPreferred \/ AcFallback]_vars

\* ---------------------------------------------------------------------
\* phase1_zones.py: make_square_grid and main
\* ---------------------------------------------------------------------

\* The projected plane is cut into MaxPix x MaxPix rectangular tiles by the
\* lines x = 0, 1, 20, 21, 40, ... and y = 0, 3, 20, 23, 40, ...; a polygon
\* is the set of tiles it covers, a tile is <<i, j>> (column, row).
MaxPix == 3

\* the smaller cell size; the tile lines repeat with this period
BaseStep == 20

\* width of the thin columns and height of the thin rows: a thin column
\* crossing a thin row is a tile below 1% of the square of BaseStep
Thin == [x |-> 1, y |-> 3]

\* position of tile line k (k = 0, 1, 2, ...) of an axis whose thin tiles
\* are thin wide: 0, thin, BaseStep, BaseStep + thin, ...; tile i lies
\* between the lines i - 1 and i
LineAt(k, thin) == (k \div 2) * BaseStep + (IF k % 2 = 1 THEN thin ELSE 0)

Tiles == (1..MaxPix) \X (1..MaxPix)

RECURSIVE Area(_)
\* GeoSeries.area of a polygon: the sum of its tiles' width times height
Area(g) ==
    IF g = {} THEN 0
    ELSE LET t == CHOOSE u \in g : TRUE
         IN  (LineAt(t[1], Thin.x) - LineAt(t[1] - 1, Thin.x))
                 * (LineAt(t[2], Thin.y) - LineAt(t[2] - 1, Thin.y))
             + Area(g \ {t})

\* boundary_m.total_bounds
total_bounds(b) ==
    [xmin |-> SetMin({LineAt(t[1] - 1, Thin.x) : t \in b}),
     ymin |-> SetMin({LineAt(t[2] - 1, Thin.y) : t \in b}),
     xmax |-> SetMax({LineAt(t[1], Thin.x) : t \in b}),
     ymax |-> SetMax({LineAt(t[2], Thin.y) : t \in b})]

\* np.arange(start, stop, step): start + k * step for 0 <= k < ceil((stop - start) / step)
arange(start, stop, step) ==
    LET n == ((stop - start) + step - 1) \div step
    IN  [k \in 1..n |-> start + (k - 1) * step]

\* the square Polygon with lower-left corner (x, y): the tiles it covers
SquareCell(x, y, step) ==
    {t \in Tiles :
        /\ x <= LineAt(t[1] - 1, Thin.x) /\ LineAt(t[1] - 1, Thin.x) < x + step
        /\ y <= LineAt(t[2] - 1, Thin.y) /\ LineAt(t[2] - 1, Thin.y) < y + step}

\* cells, in the order of "for x in xs[:-1]: for y in ys[:-1]" (all but the
\* last element of xs and of ys)
GridCells(b, step) ==
    LET tb == total_bounds(b)
        xa == arange(tb.xmin, tb.xmax + step, step)
        ya == arange(tb.ymin, tb.ymax + step, step)
        xs == SubSeq(xa, 1, Len(xa) - 1)
        ys == SubSeq(ya, 1, Len(ya) - 1)
    IN  [k \in 1..(Len(xs) * Len(ys)) |->
            SquareCell(xs[((k - 1) \div Len(ys)) + 1], ys[((k - 1) % Len(ys)) + 1], step)]

RECURSIVE Grow(_, _)
\* the connected part of g that holds the tiles c: tiles sharing an edge
Grow(c, g) ==
    LET more == {u \in g \ c : \E t \in c :
                    \/ t[1] = u[1] /\ (t[2] = u[2] + 1 \/ u[2] = t[2] + 1)
                    \/ t[2] = u[2] /\ (t[1] = u[1] + 1 \/ u[1] = t[1] + 1)}
    IN  IF more = {} THEN c ELSE Grow(c \cup more, g)

\* explode: the single polygons of a (multi)polygon
Parts(g) == {Grow({t}, g) : t \in g}

RECURSIVE PartsInOrder(_)
\* the parts of one clipped cell as consecutive rows
PartsInOrder(ps) ==
    IF ps = {} THEN <<>>
    ELSE LET low(p) == SetMin({(t[1] - 1) * MaxPix + t[2] : t \in p})
             first  == CHOOSE p \in ps : \A q \in ps : low(p) <= low(q)
         IN  <<first>> \o PartsInOrder(ps \ {first})

RECURSIVE overlay_explode(_, _, _)
\* gpd.overlay(grid, boundary, how="intersection") followed by explode: the
\* single parts of every non-empty cell /\ boundary, cell after cell from k on
overlay_explode(cells, b, k) ==
    IF k > Len(cells) THEN <<>>
    ELSE PartsInOrder(Parts(cells[k] \cap b)) \o overlay_explode(cells, b, k + 1)

\* clipped[clipped["__area"] >= 0.01 * cell_area], ignoring the threshold
KeepAll(pieces, step) == pieces

\* clipped[clipped["__area"] >= 0.01 * cell_area] with cell_area = step * step
DropSlivers(pieces, step) ==
    SelectSeq(pieces, LAMBDA g : Area(g) * 100 >= step * step)

\* ZoneID = f"BLR-{i:04d}" for i in range(1, len(clipped) + 1): the number i
make_square_grid(b, step) ==
    LET kept == DropSlivers(overlay_explode(GridCells(b, step), b, 1), step)
    IN  [i \in 1..Len(kept) |-> [ZoneID |-> i, geometry |-> kept[i]]]

Boundaries == (SUBSET Tiles) \ {{}}

CellSteps == {BaseStep, 2 * BaseStep}

InitGrid ==
    /\ boundary \in Boundaries
    /\ cellStep \in CellSteps
    /\ gzones = <<>>
    /\ zonesFile = NoZonesFiles
    /\ gpc = "grid"
    /\ SideIdleBut("grid")
    /\ CleanIdle /\ PipeIdle /\ QaIdle

GridFrame == UNCHANGED <<octVars, acVars, rangeVars, rollVars, cleanVars, pipeVars, qaVars>>

\* zones = make_square_grid(boundary, CELL_KM); zones = add_octant_labels(zones)
MakeGrid ==
    /\ gpc = "grid"
    /\ gzones' = make_square_grid(boundary, cellStep)
    /\ gpc' = "geojson"
    /\ UNCHANGED <<boundary, cellStep, zonesFile>>
    /\ GridFrame

\* zones.to_file(OUT_GEOJSON, driver="GeoJSON"); what the library does with a
\* frame of no rows depends on its version: it writes the file or it raises
WriteGeoJson ==
    /\ gpc = "geojson"
    /\ \/ /\ zonesFile' = [zonesFile EXCEPT !.geojson = [exists |-> TRUE, rows |-> gzones]]
          /\ gpc' = "parquet"
       \/ /\ gzones = <<>>
          /\ zonesFile' = zonesFile
          /\ gpc' = "failed"
    /\ UNCHANGED <<boundary, cellStep, gzones>>
    /\ GridFrame

\* try: import pyarrow; zones.to_parquet(OUT_PARQUET) / except: print
WriteParquet ==
    /\ gpc = "parquet"
    /\ \/ zonesFile' = [zonesFile EXCEPT !.parquet = [exists |-> TRUE, rows |-> gzones]]
       \/ zonesFile' = zonesFile
    /\ gpc' = "report"
    /\ UNCHANGED <<boundary, cellStep, gzones>>
    /\ GridFrame

\* rpt = coverage_report(boundary, zones): dissolve().geometry.iloc[0] has no
\* row 0 when there is no zone
CoverageReport ==
    /\ gpc = "report"
    /\ gpc' = IF gzones = <<>> THEN "failed" ELSE "done"
    /\ UNCHANGED <<boundary, cellStep, gzones, zonesFile>>
    /\ GridFrame

SpecGrid ==
    InitGrid /\ [][MakeGrid \/ WriteGeoJson \/ WriteParquet \/ CoverageReport]_vars

\* ---------------------------------------------------------------------
\* phase2_weather.py: process_zone over a requested range
\* ---------------------------------------------------------------------

\* Hours are counted from START_DATE; main requests [0, reqEnd], where
\* reqEnd comes from _end_date_utc_minus1() and grows from one day to the
\* next. expand() shifts every stamp by the same UTC-to-IST offset, which is
\* left out of the count.
MaxEnd == 3

\* the frame a successful request for [0, e] parses to: one row an hour
FetchedFrames(e) ==
    {RawFrame(0..e, f, gm, FALSE) : f \in [0..e -> TVals], gm \in GhiModes}

InitRange ==
    /\ reqEnd \in 0..(MaxEnd - 1)
    /\ rawFile = NoFile
    /\ procOut = <<>>
    /\ procPath = "none"
    /\ SideIdleBut("range")
    /\ CleanIdle /\ PipeIdle /\ QaIdle

RangeFrame == UNCHANGED <<octVars, acVars, gridVars, rollVars, cleanVars, pipeVars, qaVars>>

\* process_zone, else branch: fetch_power_hourly(lat, lon, start, end), the
\* cache file written, clean_hourly; or the fetch raises
ProcessZoneFetch ==
    /\ procPath = "none"
    /\ ~rawFile.exists
    /\ \/ \E raw \in FetchedFrames(reqEnd) :
            LET c == clean_hourly(raw)
            IN  /\ rawFile' = [exists |-> TRUE, rows |-> ToParquet(raw)]
                /\ procOut' = IF c.err = "none" THEN OutFrame(1, c.df) ELSE <<>>
                /\ procPath' = IF c.err = "none" THEN "fetch" ELSE "raised"
       \/ /\ procPath' = "raised"
          /\ UNCHANGED <<rawFile, procOut>>
    /\ UNCHANGED reqEnd
    /\ RangeFrame

\* process_zone, if os.path.exists(raw_fp): the cache file read, start and
\* end not looked at
ProcessZoneCached ==
    /\ procPath = "none"
    /\ rawFile.exists
    /\ LET c == clean_hourly(ReadCache(rawFile.rows))
       IN  /\ procOut' = IF c.err = "none" THEN OutFrame(1, c.df) ELSE <<>>
           /\ procPath' = IF c.err = "none" THEN "cache" ELSE "raised"
    /\ UNCHANGED <<reqEnd, rawFile>>
    /\ RangeFrame

\* a later run of main: start, end = START_DATE, _end_date_utc_minus1()
LaterRun ==
    /\ procPath # "none"
    /\ \E e \in reqEnd..MaxEnd : reqEnd' = e
    /\ procOut' = <<>>
    /\ procPath' = "none"
    /\ UNCHANGED rawFile
    /\ RangeFrame

SpecRange == InitRange /\ [][ProcessZoneFetch \/ ProcessZoneCached \/ LaterRun]_vars

\* ---------------------------------------------------------------------
\* phase4_plots.py: build_city_rollups_from_features, load_city_rollups
\* ---------------------------------------------------------------------

MaxRollZones == 2

\* the energies a zone may have on a date (hundredths of a kWh); no entry,
\* no row
RollChoices == <<{1000, 3000}, {2000}>>

RECURSIVE FeatRows(_, _)
\* the Features rows of the keys K with energies e, in ZoneID, date order
FeatRows(K, e) ==
    IF K = {} THEN <<>>
    ELSE LET k == CHOOSE a \in K : \A b \in K :
                      a[1] < b[1] \/ (a[1] = b[1] /\ a[2] <= b[2])
         IN  <<[ZoneID |-> k[1], date |-> k[2], energy_kwh |-> Cell(e[k])]>>
                 \o FeatRows(K \ {k}, e)

\* every non-empty Features table: one row at most for a zone and a date
FeatTables ==
    LET dates == 1..Len(RollChoices)
        keys  == (1..MaxRollZones) \X dates
        all   == UNION {RollChoices[d] : d \in dates}
    IN  UNION {{FeatRows(K, e) : e \in {f \in [K -> all] :
                                          \A k \in K : f[k] \in RollChoices[k[2]]}} :
               K \in (SUBSET keys) \ {{}}}

\* fe.groupby("date")["energy_kwh"]: the rows of one date
DateGroup(fe, d) == SelectSeq(fe, LAMBDA r : r.date = d)

\* one row of city: size, mean, median, quantile(0.05), quantile(0.95), min, max
RollupRow(fe, d) ==
    LET g  == DateGroup(fe, d)
        es == [k \in 1..Len(g) |-> g[k].energy_kwh]
        xs == {Val(es[k]) : k \in 1..Len(g)}
    IN  [date       |-> d,
         n_zones    |-> Len(g),
         mean_kwh   |-> [num |-> SumCells(es, Len(es)), den |-> Len(es)],
         median_kwh |-> quantile(g, "energy_kwh", 50),
         p05_kwh    |-> quantile(g, "energy_kwh", 5),
         p95_kwh    |-> quantile(g, "energy_kwh", 95),
         min_kwh    |-> SetMin(xs),
         max_kwh    |-> SetMax(xs)]

RECURSIVE RollupFrom(_, _)
\* pd.DataFrame({...}).reset_index().sort_values("date"), from date d on
RollupFrom(fe, d) ==
    IF d > Len(RollChoices) THEN <<>>
    ELSE (IF Len(DateGroup(fe, d)) = 0 THEN <<>> ELSE <<RollupRow(fe, d)>>)
             \o RollupFrom(fe, d + 1)

\* the frame build_city_rollups_from_features computes from the Features table
city_rollup(fe) == RollupFrom(fe, 1)

InitRoll ==
    /\ \E t \in FeatTables : feat = [exists |-> TRUE, rows |-> t]
    /\ city = NoFile
    /\ cityRet = NoFile
    /\ SideIdleBut("roll")
    /\ CleanIdle /\ PipeIdle /\ QaIdle

RollFrame == UNCHANGED <<octVars, acVars, gridVars, rangeVars, cleanVars, pipeVars, qaVars>>

\* load_city_rollups: the stored file if CITY_PATH exists, else
\* build_city_rollups_from_features, which also writes CITY_PATH
LoadCityRollups ==
    /\ feat.exists
    /\ IF city.exists
       THEN /\ cityRet' = city
            /\ city' = city
       ELSE /\ city' = [exists |-> TRUE, rows |-> city_rollup(feat.rows)]
            /\ cityRet' = city'
    /\ UNCHANGED feat
    /\ RollFrame

\* a rerun of phase4_features writes FEAT_PATH with different contents
RewriteFeatures ==
    /\ \E t \in FeatTables :
          /\ t # feat.rows
          /\ feat' = [exists |-> TRUE, rows |-> t]
    /\ cityRet' = NoFile
    /\ UNCHANGED city
    /\ RollFrame

SpecRoll == InitRoll /\ [][LoadCityRollups \/ RewriteFeatures]_vars

\* ---------------------------------------------------------------------
\* phase2_weather.py: fetch_power_hourly with larger max_retries
\* ---------------------------------------------------------------------

\* max_retries is a parameter of fetch_power_hourly (default 3); SpecFetch
\* runs phase 2 over one zone with max_retries up to MaxBackoff
MaxBackoff == 5

InitFetch ==
    /\ zones = <<1>>
    /\ maxRetries \in 1..MaxBackoff
    /\ PipeFresh
    /\ CleanIdle
    /\ QaIdle
    /\ SideIdle

SpecFetch ==
    InitFetch /\ [][P2Start \/ P2ZoneCached \/ P2ZoneFetch \/ FetchRequest \/ P2Finish]_vars

\* ----------------------------------------------------- claims: cleaning
WeatherCols == {"ghi_wm2", "t2m_c", "ws10_ms"}
OutCol(col) == IF col = "ghi_wm2" THEN "ghi_whm2" ELSE col

\* the strict hourly series clean_hourly works on
Hourly == asfreq(sort_index(cin))

\* length of the maximal run of consecutive NaN cells of a column around row i
RunLen(h, col, i) ==
    LET lo == SetMin({a \in 1..i : \A j \in a..i : IsNa(h[j][col])})
        hi == SetMax({b \in i..Len(h) : \A j \in i..b : IsNa(h[j][col])})
    IN  hi - lo + 1

RunStart(h, col, i) == SetMin({a \in 1..i : \A j \in a..i : IsNa(h[j][col])})

\* C4: clean_hourly forward-fills a run of consecutive missing values only
\* when the run has length at most 3 (a run of 1..3 hours after a valid hour
\* is filled); every hour inside a run of 4 or more consecutive missing
\* values is still null in the output.
C4_FfillOnlyShortRuns ==
    (cpc # "input" /\ cout.err = "none") =>
        \A col \in WeatherCols : \A i \in 1..Len(Hourly) :
            IsNa(Hourly[i][col]) =>
                /\ RunLen(Hourly, col, i) >= 4 => IsNa(cout.df[i][OutCol(col)])
                /\ (RunLen(Hourly, col, i) <= 3 /\ RunStart(Hourly, col, i) > 1)
                       => ~IsNa(cout.df[i][OutCol(col)])

\* C5: cleaning is idempotent: applying the cleaning step to clean_hourly(s)
\* succeeds and yields clean_hourly(s) again, and the 1st/99th-percentile
\* clip applied a second time changes no value.
C5_CleanIdempotent ==
    cpc = "recleaned" =>
        /\ cre.err = "none"
        /\ cre.df = cout.df
        /\ cclip2 = cout.df

\* ------------------------------------------------ claims on the pipeline
Range(s) == {s[k] : k \in 1..Len(s)}
FrameZones == {frames[k].zone : k \in 1..Len(frames)}
Failures(log, n) == \A k \in 1..n : log[k].kind # "ok"

\* C1: fetch_power_hourly with max_retries = N >= 1 issues at most N
\* requests (while it runs, fewer than N have been issued, so it terminates);
\* when it returns, the last request is the first successful one and the
\* returned series is that request's series, never an empty result; when it
\* raises, all N requests failed, the error is the last request's error, and
\* main has skipped the zone: no frame for it, the loop is at the next zone.
C1_FetchTerminates ==
    /\ Len(reqLog) <= maxRetries
    /\ pc = "p2_fetch" =>
          /\ fetchRet.kind = "running"
          /\ attempt = Len(reqLog) + 1
          /\ Len(reqLog) < maxRetries
          /\ Failures(reqLog, Len(reqLog))
    /\ fetchRet.kind = "returned" =>
          /\ pc = "p2_loop"
          /\ Len(reqLog) >= 1
          /\ reqLog[Len(reqLog)].kind = "ok"
          /\ Failures(reqLog, Len(reqLog) - 1)
          /\ fetchRet.df = reqLog[Len(reqLog)].df
          /\ fetchRet.df # <<>>
    /\ fetchRet.kind = "raised" =>
          /\ pc = "p2_loop"
          /\ Len(reqLog) = maxRetries
          /\ Failures(reqLog, Len(reqLog))
          /\ fetchRet.err = reqLog[Len(reqLog)].kind
          /\ fetchRet.zone \in raised
          /\ fetchRet.zone \notin FrameZones
          /\ zones[idx - 1] = fetchRet.zone

\* a fetch that raised after MaxRetries failures of different kinds, with a
\* later zone still to process
C1_Witness ==
    /\ fetchRet.kind = "raised"
    /\ Len(reqLog) = MaxRetries
    /\ reqLog[1].kind # reqLog[Len(reqLog)].kind
    /\ idx <= Len(zones)

\* the zones a finished simulation run should have rows for, given which
\* days count: zones of the list that did not raise and had weather rows
\* and a day that counts
SimulatedZones(Counts(_)) ==
    {z \in Range(zones) :
        /\ z \notin raised
        /\ HasWeather(z)
        /\ z \in DOMAIN simOf
        /\ \E d \in 1..Len(simOf[z].pac) : Counts(simOf[z].pac[d])}

AnyDay(day) == TRUE
DayWith20(day) == Cardinality({h \in 1..Len(day) : day[h] # NaN}) >= 20

\* every zone is attempted once, in list order, whatever failed before it
AttemptedInOrder ==
    /\ pc \in {"p2_loop", "p3_loop"} => attempted = SubSeq(zones, 1, idx - 1)
    /\ pc = "p2_fetch" => attempted = SubSeq(zones, 1, idx)
    /\ (pc = "idle" /\ lastStage # "none") => attempted = zones

\* the weather stage at its end: aborted iff every zone raised, else the
\* table has rows for exactly the zones that did not raise
WeatherStageEnd ==
    (pc = "idle" /\ lastStage = "p2") =>
        /\ lastExit = "abort" <=> Range(zones) \subseteq raised
        /\ lastExit = "written" => ZonesIn(weather) = Range(zones) \ raised

\* C2 (as stated): every zone of the list is attempted exactly once in list
\* order, a failing zone never prevents a later zone from being processed,
\* and the persisted table has rows for exactly the zones whose processing
\* did not raise (in phase 3: that also had at least one weather row).
C2_ExactlyNonRaising ==
    /\ AttemptedInOrder
    /\ WeatherStageEnd
    /\ (pc = "idle" /\ lastStage = "p3" /\ lastExit = "written") =>
          ZonesIn(daily) = SimulatedZones(AnyDay)

\* C2 (amended): as above, but in phase 3 the table has rows for exactly the
\* zones that did not raise, had at least one weather row and have at least
\* one local day with 20 or more non-null hourly AC values; a stage in which
\* no zone succeeds aborts without writing its table.
C2_ExactlyZonesWithRows ==
    /\ AttemptedInOrder
    /\ WeatherStageEnd
    /\ (pc = "idle" /\ lastStage = "p3") =>
          /\ lastExit = "abort" <=>
                \A z \in Range(zones) : z \in raised \/ ~HasWeather(z)
          /\ lastExit = "written" => ZonesIn(daily) = SimulatedZones(DayWith20)

\* a written simulation run of two zones: the first raised, the second has
\* rows; and a finished run where a zone that did not raise has no row
C2_Witness ==
    /\ pc = "idle" /\ lastStage = "p3" /\ lastExit = "written"
    /\ Len(zones) = 2
    /\ zones[1] \in raised
    /\ zones[2] \in ZonesIn(daily)

C2_WitnessNoRow ==
    /\ pc = "idle" /\ lastStage = "p3" /\ lastExit = "written"
    /\ \E z \in Range(zones) :
          z \notin raised /\ HasWeather(z) /\ z \notin ZonesIn(daily)

\* C3: a cache entry appears only with a successful fetch of that zone and
\* holds what was fetched, a fetch that raised leaves the zone uncached,
\* entries are never changed, a request is only issued for a zone that has
\* no entry, and the cleaned frame of a zone equals, on every run, the frame
\* of the run that fetched it.
C3_CacheStep ==
    /\ \A z \in DOMAIN cache : z \in DOMAIN cache' /\ cache'[z] = cache[z]
    /\ \A z \in DOMAIN cache' \ DOMAIN cache :
          /\ fetchRet'.kind = "returned"
          /\ fetchRet'.zone = z
          /\ reqLog'[Len(reqLog')].kind = "ok"
          /\ ReadCache(cache'[z]) = reqLog'[Len(reqLog')].df
    /\ Len(reqLog') > Len(reqLog) => zones[idx] \notin DOMAIN cache
    /\ fetchRet'.kind = "raised" => fetchRet'.zone \notin DOMAIN cache'

C3_CacheState ==
    /\ \A k \in 1..Len(frames) :
          /\ frames[k].zone \in DOMAIN fetchedIn
          /\ frames[k].df = fetchedIn[frames[k].zone]
    /\ lastStage = "p2" => raised \cap DOMAIN cache = {}
    /\ hitAfter \subseteq DOMAIN cache

C3_CacheSemantics == [](C3_CacheState) /\ [][C3_CacheStep]_vars

\* a later run took a zone's frame from the cache after an earlier run
\* fetched it, and another zone's fetch raised in between
C3_Witness ==
    /\ runs >= 2
    /\ pc = "p2_loop"
    /\ \E k \in 1..Len(frames) : frames[k].zone \in hitAfter
    /\ raised # {}

\* ---------------------------------------------- claims on the simulation
\* the non-null hourly AC values of a day, and their sum
NonNull(day) == {h \in 1..Len(day) : day[h] # NaN}

RECURSIVE SumOver(_, _)
SumOver(day, hs) ==
    IF hs = {} THEN 0
    ELSE LET h == CHOOSE x \in hs : TRUE
         IN  day[h][1] + SumOver(day, hs \ {h})

\* the rows of the DailyEnergy table for one zone-day
RowsFor(z, d) ==
    {k \in 1..Len(daily.rows) : daily.rows[k].ZoneID = z /\ daily.rows[k].date = d}

\* the zones the last simulation run computed a daily series for
Simulated == {z \in Range(zones) : HasWeather(z) /\ z \notin raised}

\* C6: after a simulation run wrote the DailyEnergy table, a simulated zone's
\* local day with at least 20 non-null hourly AC values has exactly one row,
\* whose energy is the sum of those values divided by 1000; a day with 19 or
\* fewer has no row at all; and the table has no other rows and no null
\* energy.
C6_DailyMinCount ==
    (pc = "idle" /\ lastStage = "p3" /\ lastExit = "written") =>
        /\ \A z \in Simulated : \A d \in 1..Len(simOf[z].pac) :
              LET day == simOf[z].pac[d]
              IN  IF Cardinality(NonNull(day)) >= 20
                  THEN /\ Cardinality(RowsFor(z, d)) = 1
                       /\ \A k \in RowsFor(z, d) :
                             /\ daily.rows[k].energy_kwh # NaN
                             /\ daily.rows[k].energy_kwh[1].num
                                    = SumOver(day, NonNull(day))
                             /\ daily.rows[k].energy_kwh[1].den = 1000
                  ELSE RowsFor(z, d) = {}
        /\ \A k \in 1..Len(daily.rows) :
              /\ daily.rows[k].ZoneID \in Simulated
              /\ daily.rows[k].date \in 1..Len(simOf[daily.rows[k].ZoneID].pac)
              /\ daily.rows[k].energy_kwh # NaN

\* a written table where one zone has a day with exactly 20 valid hours (a
\* row) and a day with 19 (no row), and some row has zero energy
C6_Witness ==
    /\ pc = "idle" /\ lastStage = "p3" /\ lastExit = "written"
    /\ \E z \in Simulated :
          /\ \E d \in 1..Len(simOf[z].pac) :
                Cardinality(NonNull(simOf[z].pac[d])) = 20 /\ RowsFor(z, d) # {}
          /\ \E d \in 1..Len(simOf[z].pac) :
                Cardinality(NonNull(simOf[z].pac[d])) = 19 /\ RowsFor(z, d) = {}
    /\ \E k \in 1..Len(daily.rows) : daily.rows[k].energy_kwh[1].num = 0

\* -------------------------------------------------- claims on the QA side
\* day count, zero-energy day count and energy sum (hundredths of a kWh) of
\* the first k blocks of a zone-year
RECURSIVE DayCount(_, _)
DayCount(g, k) == IF k = 0 THEN 0 ELSE g[k].n + DayCount(g, k - 1)

RECURSIVE ZeroCount(_, _)
ZeroCount(g, k) ==
    IF k = 0 THEN 0
    ELSE (IF g[k].e * 100 <= 1 * 100 THEN g[k].n ELSE 0) + ZeroCount(g, k - 1)

RECURSIVE EnergySum(_, _)
EnergySum(g, k) == IF k = 0 THEN 0 ELSE g[k].n * g[k].e + EnergySum(g, k - 1)

DetailRows(z, y) ==
    {k \in 1..Len(detail.rows) : detail.rows[k].ZoneID = z /\ detail.rows[k].year = y}

SummaryRows(rows, z) == {k \in 1..Len(rows) : rows[k].ZoneID = z}

\* what the summary says of a zone; a zone without a row has no full year
\* and does not pass
ZoneFields(rows, z) ==
    IF SummaryRows(rows, z) = {} THEN <<"False", 0, NaN>>
    ELSE LET k == CHOOSE x \in SummaryRows(rows, z) : TRUE
         IN  <<rows[k].qa_pass_zone, rows[k].n_full_pass, rows[k].latest_full_year>>

\* the table with every partial year removed
WithoutPartial(d) ==
    [key \in DOMAIN d |-> IF DayCount(d[key], Len(d[key])) >= 360 THEN d[key] ELSE <<>>]

\* C7 (state): in a summary just written, a zone with rows has exactly one
\* row, and its qa_pass_zone is true iff some zone-year of the zone has
\* days >= 360 and qa_pass_year true in the detail table; and qa_pass_zone,
\* n_full_pass and latest_full_year are what the QA of the table without its
\* partial years gives.
C7_ZonePassState ==
    qlast = "qa" =>
        \A z \in QaZones :
            /\ Cardinality(SummaryRows(summary.rows, z)) = (IF z \in ZonesOf(de) THEN 1 ELSE 0)
            /\ ZoneFields(summary.rows, z)[1] \in {"True", "False"}
            /\ ZoneFields(summary.rows, z)[1] = "True" <=>
                  \E y \in QaYears :
                      /\ DayCount(de[<<z, y>>], Len(de[<<z, y>>])) >= 360
                      /\ \E k \in DetailRows(z, y) : detail.rows[k].qa_pass_year
            /\ ZoneFields(summary.rows, z)
                  = ZoneFields(to_csv(zone_summary(Stats(WithoutPartial(de)))), z)

\* C7 (step): the table changes in partial years only, so a summary written
\* after any such changes agrees with the summary it replaces on every
\* zone's qa_pass_zone, n_full_pass and latest_full_year.
C7_ZonePassStep ==
    (summary.exists /\ summary'.exists) =>
        \A z \in QaZones : ZoneFields(summary'.rows, z) = ZoneFields(summary.rows, z)

C7_PartialYearsNeverCount == [](C7_ZonePassState) /\ [][C7_ZonePassStep]_vars

\* a summary written after a change of a partial year: a zone that passes
\* by a full year, and a zone whose only passing year is partial and which
\* does not pass
C7_Witness ==
    /\ qlast = "qa"
    /\ edits >= 1
    /\ \E z \in QaZones : ZoneFields(summary.rows, z)[1] = "True"
    /\ \E z \in QaZones : \E k \in 1..Len(detail.rows) :
          /\ detail.rows[k].ZoneID = z
          /\ detail.rows[k].days < 360
          /\ detail.rows[k].qa_pass_year
          /\ ZoneFields(summary.rows, z)[1] = "False"

\* C8: in a summary just written, the pass flag of a zone with only partial
\* years is neither true nor false, and differs from the flag of every zone
\* that has a full year.
C8_UndeterminedFlag ==
    qlast = "qa" =>
        \A k \in 1..Len(summary.rows) :
            summary.rows[k].n_full_years = 0 =>
                /\ summary.rows[k].qa_pass_zone \notin {"True", "False"}
                /\ \A j \in 1..Len(summary.rows) :
                      summary.rows[j].n_full_years > 0 =>
                          summary.rows[j].qa_pass_zone # summary.rows[k].qa_pass_zone

\* C9: in a detail table just written there is one row per zone-year with
\* rows, and its ok_days is days >= 330, ok_zero_days is (days with energy
\* <= 0.01) <= 40, ok_cf is 0.12 <= annual / (10 * 24 * 365) <= 0.28, ok_mean
\* is 5 <= annual / days <= 60, qa_pass_year is the conjunction of the four;
\* a zone-year of 300 days has ok_days and qa_pass_year false.
C9_RuleConjunction ==
    qlast \in {"qa", "qa_nocsv"} =>
        \A z \in QaZones : \A y \in QaYears :
            LET g == de[<<z, y>>]
                days == DayCount(g, Len(g))
                zeros == ZeroCount(g, Len(g))
                annual == EnergySum(g, Len(g))
            IN  IF g = <<>> THEN DetailRows(z, y) = {}
                ELSE /\ Cardinality(DetailRows(z, y)) = 1
                     /\ \A k \in DetailRows(z, y) :
                          LET r == detail.rows[k]
                          IN  /\ r.ok_days <=> days >= 330
                              /\ r.ok_zero_days <=> zeros <= 40
                              /\ r.ok_cf <=> /\ 12 * (10 * 24 * 365) <= annual
                                             /\ annual <= 28 * (10 * 24 * 365)
                              /\ r.ok_mean <=> /\ 5 * 100 * days <= annual
                                               /\ annual <= 60 * 100 * days
                              /\ r.qa_pass_year <=>
                                    r.ok_days /\ r.ok_zero_days /\ r.ok_cf /\ r.ok_mean
                              /\ days = 300 => ~r.ok_days /\ ~r.qa_pass_year

\* a detail table just written with a zone-year of 300 days whose other
\* three rules hold
C9_Witness ==
    /\ qlast \in {"qa", "qa_nocsv"}
    /\ \E k \in 1..Len(detail.rows) :
          /\ detail.rows[k].days = 300
          /\ detail.rows[k].ok_zero_days
          /\ detail.rows[k].ok_cf
          /\ detail.rows[k].ok_mean
          /\ ~detail.rows[k].qa_pass_year

\* the zones with a full passing year according to the detail table
PassingZones ==
    {detail.rows[k].ZoneID : k \in {j \in 1..Len(detail.rows) :
        detail.rows[j].days >= 360 /\ detail.rows[j].qa_pass_year}}

\* C10: features built while a QA result (summary or detail file) existed
\* are built from exactly the zones that pass QA; features built without
\* any QA result are built from all zones.
C10_OnlyPassingZones ==
    features.exists =>
        IF features.qaCsv \/ features.qaParquet
        THEN features.zones = ZonesOf(de) \cap PassingZones
        ELSE features.zones = ZonesOf(de)

\* C17: with the summary CSV absent and the per-zone-year table of the QA
\* stage present, get_good_zones returns exactly the zones that have a full
\* year (days >= 360) whose yearly pass flag is true
C17_ParquetFallbackPassing ==
    (~summary.exists /\ detail.exists) => get_good_zones = PassingZones

\* ---------------------------------------------------------------------
\* Region labels (SpecOct)
\* ---------------------------------------------------------------------

Octants == <<"E", "NE", "N", "NW", "W", "SW", "S", "SE">>

\* the 45-degree sector, counted counter-clockwise from East, whose half-open
\* range [45k - 22.5, 45k + 22.5) holds the angle a
SectorOf(a) ==
    ((2 * a + 45 * AngleRes + 720 * AngleRes) % (720 * AngleRes))
        \div (90 * AngleRes)

\* C11: every zone gets exactly one of the eight labels, never "NA", for
\* every centroid angle in [-180, 180]: the label of the one half-open
\* sector that holds the angle, so 22.5 is NE, -22.5 is E, 180 and -180 are W
C11_OctantPartition ==
    region8 # "unset" =>
        /\ region8 # "NA"
        /\ \E k \in 1..8 : region8 = Octants[k]
        /\ region8 = Octants[SectorOf(ang) + 1]
        /\ (2 * ang = 45 * AngleRes => region8 = "NE")
        /\ (2 * ang = -45 * AngleRes => region8 = "E")
        /\ (ang = 180 * AngleRes \/ ang = -180 * AngleRes => region8 = "W")

\* a zone whose centroid lies exactly on the E/NE boundary has been labelled
C11_Witness ==
    /\ 2 * ang = 45 * AngleRes
    /\ region8 = "NE"

\* ---------------------------------------------------------------------
\* Inverter fallback (SpecAc)
\* ---------------------------------------------------------------------

FallbackReturned ==
    /\ acPath \in {"import_fails", "no_attr", "call_raises"}
    /\ acOut # <<>>

\* C12: on the fallback path every returned AC value p has
\* 0 <= p <= eta_inv_nom * pdc0_w whatever the DC input, negative and above
\* rated included, and p = eta_inv_nom * pdc when 0 <= pdc <= pdc0_w; an hour
\* whose DC power is missing returns no AC value
C12_FallbackCeiling ==
    FallbackReturned =>
        /\ Len(acOut) = Len(acIn)
        /\ \A h \in 1..Len(acIn) :
              /\ IsNa(acOut[h]) <=> IsNa(acIn[h])
              /\ ~IsNa(acIn[h]) =>
                    /\ 0 <= Val(acOut[h])
                    /\ Val(acOut[h]) <= EtaPct * Pdc0W
                    /\ (0 <= Val(acIn[h]) /\ Val(acIn[h]) <= Pdc0W
                            => Val(acOut[h]) = EtaPct * Val(acIn[h]))

\* the fallback has returned for a series with a negative hour and an hour
\* above rated power
C12_Witness ==
    /\ FallbackReturned
    /\ \E h \in 1..Len(acIn) : ~IsNa(acIn[h]) /\ Val(acIn[h]) < 0
    /\ \E h \in 1..Len(acIn) : ~IsNa(acIn[h]) /\ Val(acIn[h]) > Pdc0W
                                  /\ Val(acOut[h]) = EtaPct * Pdc0W

\* ---------------------------------------------------------------------
\* Grid building and the zones file (SpecGrid)
\* ---------------------------------------------------------------------

GridBuilt == gpc # "grid"

ZoneUnion == UNION {gzones[i].geometry : i \in 1..Len(gzones)}

\* C13: the zones make_square_grid returns are pairwise non-overlapping, lie
\* inside the boundary, have an area of at least 1% of the nominal cell area,
\* and carry the ZoneIDs 1..n, each once
C13_ZonesDisjointInside ==
    GridBuilt =>
        /\ \A i, j \in 1..Len(gzones) :
              i # j => gzones[i].geometry \cap gzones[j].geometry = {}
        /\ \A i \in 1..Len(gzones) :
              /\ gzones[i].geometry # {}
              /\ gzones[i].geometry \subseteq boundary
              /\ Area(gzones[i].geometry) * 100 >= cellStep * cellStep
              /\ gzones[i].ZoneID = i
        /\ {gzones[i].ZoneID : i \in 1..Len(gzones)} = 1..Len(gzones)

\* a grid of several zones has been built from a boundary of which a sliver
\* was dropped
C13_Witness ==
    /\ GridBuilt
    /\ Len(gzones) >= 2
    /\ ZoneUnion # boundary

\* C16: when grid building leaves no zone, stage 1 aborts and writes no
\* zones file: an empty Zone table is never persisted
C16_ZeroZonesAbort ==
    (GridBuilt /\ gzones = <<>>) =>
        /\ zonesFile = NoZonesFiles
        /\ gpc \in {"geojson", "failed"}

\* ---------------------------------------------------------------------
\* Requested range (SpecRange)
\* ---------------------------------------------------------------------

\* C14: after process_zone succeeds the zone's output holds exactly one
\* record for every hour of the requested range, on the fresh-fetch path and
\* on the cache-hit path alike, also when the requested end is later than
\* that of the run which filled the cache
C14_OneRecordPerRequestedHour ==
    procPath \in {"fetch", "cache"} =>
        /\ Len(procOut) = reqEnd + 1
        /\ \A h \in 0..reqEnd : \E k \in 1..Len(procOut) : procOut[k].ts = h

\* ---------------------------------------------------------------------
\* City rollups (SpecRoll)
\* ---------------------------------------------------------------------

\* C15: after the Features table is rewritten, the next load_city_rollups
\* returns the per-date aggregation (count, mean, median, P5, P95, min, max)
\* of the current Features table, never one of an earlier table
C15_RollupOfCurrentFeatures ==
    cityRet.exists => cityRet.rows = city_rollup(feat.rows)

\* ---------------------------------------------------------------------
\* Retry delays (SpecFetch)
\* ---------------------------------------------------------------------

\* delays[k] is the time slept after failed attempt k, in tenths of a second

\* C18: retries use exponential backoff: the delay after failed attempt k + 1
\* is at least twice the delay after failed attempt k, delays are strictly
\* increasing, and no delay is slept after the final failed attempt
C18_ExponentialBackoff ==
    /\ \A k \in 1..(Len(delays) - 1) :
          /\ delays[k + 1] >= 2 * delays[k]
          /\ delays[k + 1] > delays[k]
    /\ Len(delays) < maxRetries \/ delays = <<>>

====
